---------------------------- MODULE Spec2Model ----------------------------
(***************************************************************************)
(* Model of scripts/ctd_hysteresis_test.py (rugliderqc): main() walks the  *)
(* deployments given on the command line and, for each one, walks the      *)
(* sorted queue of single-profile files, pairing a down profile with the   *)
(* up profile that follows it and writing a hysteresis flag array to each  *)
(* file.                                                                   *)
(*                                                                         *)
(* Conventions.                                                            *)
(*  - Python indices are kept 0-based: cursor = iter + skip is the value   *)
(*    of `i` after `i += skip` (line 173); ncfiles[cursor + 1] is the      *)
(*    TLA+ element that Python calls ncfiles[i].                           *)
(*  - One loop iteration (lines 172-313) is one step; each way through     *)
(*    the body is one action.                                              *)
(*  - A file is "unreadable" when xr.open_dataset raises OSError, so the   *)
(*    name bound by the `with` statement is left as it was.                *)
(*  - An exception that no handler catches ends main(): pc = "crashed".    *)
(*  - The enclosed area is the result of shapely (lines 271-277); it is an *)
(*    input of the evaluating step, drawn from Areas, and within a pass    *)
(*    and its rerun it is the same for the same point list.                *)
(*  - find_glider_deployment_datapath is taken at the interface main()     *)
(*    tests on line 136 (a path, or a false value); rugliderqc/common.py   *)
(*    returns a pair, which line 134 binds whole.                          *)
(*  - Times are whole minutes; pressure and conductivity are integers,     *)
(*    NaN is a reserved value; thresholds are fractions num/den, so the    *)
(*    comparisons of lines 284 and 288 are made in exact arithmetic.       *)
(*  - Every file that holds the conductivity variable has the time and     *)
(*    pressure variables and names its CTD instrument in the attribute     *)
(*    ancillary_variables (line 192), as the file interface requires; the  *)
(*    QARTOD variables of a file are one flag per sample (a sample is      *)
(*    masked when any of them is SUSPECT or FAIL, lines 28-30).            *)
(*  - Variable names are sequences of the words that the underscores of   *)
(*    the Python names separate; `a in b` on names is containment of a     *)
(*    run of words.  A file that save_ds has written holds the variable    *)
(*    <instrument>_hysteresis_test as the field `hysteresis`.              *)
(*  - args.deployments has between 1 and MaxDeployments entries; the loop  *)
(*    of line 131 learns at each turn whether another entry remains.       *)
(***************************************************************************)
EXTENDS Integers, Sequences, FiniteSets, TLC

\* ------------------------------------------------------------------ bounds
MaxFiles == 2
MaxDeployments == 2

\* --------------------------------------------------------------- constants
GOOD == 1
UNKNOWN == 2
SUSPECT == 3
FAIL == 4
MISSING == 9
NaN == -9999
FiveMinutes == 5
MinPressureRange == 5

\* ------------------------------------------------------------ input files
NoDataset ==
  [name |-> "unbound", readable |-> FALSE, hasCv |-> FALSE,
   time |-> << >>, pressure |-> << >>, cond |-> << >>, qartod |-> << >>]

Unreadable ==
  [name |-> "Unreadable", readable |-> FALSE, hasCv |-> FALSE,
   time |-> << >>, pressure |-> << >>, cond |-> << >>, qartod |-> << >>]

NoCv ==
  [name |-> "NoCv", readable |-> TRUE, hasCv |-> FALSE,
   time |-> <<2, 3>>, pressure |-> <<20, 0>>, cond |-> << >>, qartod |-> << >>]

NoPressure ==
  [name |-> "NoPressure", readable |-> TRUE, hasCv |-> TRUE,
   time |-> <<0, 1>>, pressure |-> <<NaN, NaN>>, cond |-> <<30, 40>>,
   qartod |-> <<GOOD, GOOD>>]

DownFull ==
  [name |-> "DownFull", readable |-> TRUE, hasCv |-> TRUE,
   time |-> <<0, 1>>, pressure |-> <<0, 20>>, cond |-> <<30, 40>>,
   qartod |-> <<GOOD, GOOD>>]

UpNear ==
  [name |-> "UpNear", readable |-> TRUE, hasCv |-> TRUE,
   time |-> <<5, 6, 7>>, pressure |-> <<20, 10, 0>>, cond |-> <<NaN, 35, 32>>,
   qartod |-> <<GOOD, GOOD, GOOD>>]

UpFar ==
  [name |-> "UpFar", readable |-> TRUE, hasCv |-> TRUE,
   time |-> <<6, 7>>, pressure |-> <<20, 0>>, cond |-> <<40, 30>>,
   qartod |-> <<GOOD, GOOD>>]

\* a down profile that starts above the surface and is later in time than
\* the up profiles
DownNeg ==
  [name |-> "DownNeg", readable |-> TRUE, hasCv |-> TRUE,
   time |-> <<11, 12>>, pressure |-> <<-3, 5>>, cond |-> <<30, 40>>,
   qartod |-> <<GOOD, GOOD>>]

UpShallow ==
  [name |-> "UpShallow", readable |-> TRUE, hasCv |-> TRUE,
   time |-> <<2, 3>>, pressure |-> <<5, 0>>, cond |-> <<99, 31>>,
   qartod |-> <<SUSPECT, GOOD>>]

UpAllNaN ==
  [name |-> "UpAllNaN", readable |-> TRUE, hasCv |-> TRUE,
   time |-> <<2, 3>>, pressure |-> <<20, 0>>, cond |-> <<NaN, NaN>>,
   qartod |-> <<GOOD, GOOD>>]

DownAllNaN ==
  [name |-> "DownAllNaN", readable |-> TRUE, hasCv |-> TRUE,
   time |-> <<0, 1>>, pressure |-> <<0, 20>>, cond |-> <<NaN, NaN>>,
   qartod |-> <<GOOD, GOOD>>]

DownMasked ==
  [name |-> "DownMasked", readable |-> TRUE, hasCv |-> TRUE,
   time |-> <<0, 1>>, pressure |-> <<0, 20>>, cond |-> <<30, 40>>,
   qartod |-> <<FAIL, SUSPECT>>]

Level ==
  [name |-> "Level", readable |-> TRUE, hasCv |-> TRUE,
   time |-> <<0, 1>>, pressure |-> <<7, 7>>, cond |-> <<30, 40>>,
   qartod |-> <<GOOD, GOOD>>]

Disjoint ==
  [name |-> "Disjoint", readable |-> TRUE, hasCv |-> TRUE,
   time |-> <<2, 3>>, pressure |-> <<NaN, 3>>, cond |-> <<35, NaN>>,
   qartod |-> <<GOOD, GOOD>>]

FileKinds ==
  {Unreadable, NoCv, NoPressure, DownFull, UpNear, UpFar, DownNeg, UpShallow,
   UpAllNaN, DownAllNaN, DownMasked, Level, Disjoint}

FileLists == UNION {[1..n -> FileKinds] : n \in 0..MaxFiles}

ThresholdConfigs ==
  {[fail_threshold |-> [num |-> 1, den |-> 2],
    suspect_threshold |-> [num |-> 1, den |-> 5]],
   [fail_threshold |-> [num |-> 1, den |-> 5],
    suspect_threshold |-> [num |-> 1, den |-> 2]]}

Areas == {10, 40, 45, 100, 120}

\* ---------------------------------------------------------------- helpers
SetMax(S) == CHOOSE x \in S : \A y \in S : y <= x
SetMin(S) == CHOOSE x \in S : \A y \in S : x <= y

IsNaN(x) == x = NaN

NonNanIdx(s) == {j \in 1..Len(s) : ~IsNaN(s[j])}

initialize_flags_pressure(dataset) ==
  [non_nan_i |-> NonNanIdx(dataset.cond),
   press_non_nan_ind |-> NonNanIdx(dataset.pressure),
   flags |-> [j \in 1..Len(dataset.cond) |->
                IF IsNaN(dataset.cond[j]) \/ IsNaN(dataset.pressure[j])
                THEN MISSING ELSE UNKNOWN]]

\* lines 34-49
initialize_flags(dataset) ==
  [non_nan_i |-> NonNanIdx(dataset.cond),
   press_non_nan_ind |-> NonNanIdx(dataset.pressure),
   flags |-> [j \in 1..Len(dataset.cond) |->
                IF IsNaN(dataset.cond[j]) THEN MISSING ELSE UNKNOWN]]

\* line 163 and line 168
cv == <<"conductivity">>
\* the QARTOD variable of the target variable, conductivity_qartod_<test>
qartod_varname == <<"conductivity", "qartod", "summary", "flag">>
\* line 192: the word of ancillary_variables that holds 'instrument_ctd'
ctd_instrument == <<"instrument", "ctd">>
\* line 194
qc_varname == ctd_instrument \o <<"hysteresis", "test">>

\* Python's `part in x` on two names
Contains(x, part) ==
  \E k \in 0..(Len(x) - Len(part)) : SubSeq(x, k + 1, k + Len(part)) = part

\* dataset.data_vars, as far as they are flag variables: the QARTOD flags,
\* and the hysteresis flags once save_ds has written the file
data_vars(dataset) ==
  {[name |-> qartod_varname, values |-> dataset.qartod]}
    \cup (IF "hysteresis" \in DOMAIN dataset
          THEN {[name |-> qc_varname, values |-> dataset.hysteresis]}
          ELSE {})

\* line 28: the names that hold f'{cond_varname}_qartod', among the names of
\* the flag variables, and the variables of a dataset that bear such a name
QartodNames ==
  {x \in {qartod_varname, qc_varname} : Contains(x, cv \o <<"qartod">>)}
QartodVars(dataset) == {qv \in data_vars(dataset) : qv.name \in QartodNames}

apply_qartod_qc_fail_only(dataset) ==
  [j \in 1..Len(dataset.cond) |->
     IF \E qv \in QartodVars(dataset) : qv.values[j] = FAIL
     THEN NaN ELSE dataset.cond[j]]

apply_qartod_qc_unfiltered(dataset) ==
  [j \in 1..Len(dataset.cond) |->
     IF \E qv \in data_vars(dataset) : qv.values[j] \in {SUSPECT, FAIL}
     THEN NaN ELSE dataset.cond[j]]

\* lines 25-31
apply_qartod_qc(dataset) ==
  [j \in 1..Len(dataset.cond) |->
     IF \E qv \in QartodVars(dataset) : qv.values[j] \in {SUSPECT, FAIL}
     THEN NaN ELSE dataset.cond[j]]

\* pressure.values[pressure_idx][0] and [-1] (lines 206, 238)
FirstPressure(dataset) ==
  dataset.pressure[SetMin(NonNanIdx(dataset.pressure))]
LastPressure(dataset) ==
  dataset.pressure[SetMax(NonNanIdx(dataset.pressure))]

HasPressure(dataset) == NonNanIdx(dataset.pressure) # {}

FirstIsUp_inverted(dataset) == FirstPressure(dataset) < LastPressure(dataset)

\* line 206: the test that sends the first file to the "up" branch
FirstIsUp(dataset) == FirstPressure(dataset) > LastPressure(dataset)
\* line 238: the test that sends the partner to the "also down" branch
SecondIsDown(dataset) == FirstPressure(dataset) < LastPressure(dataset)

\* line 247
TimeGap(first, second) == second.time[1] - first.time[Len(first.time)]
PairedYo_inclusive(first, second) == TimeGap(first, second) <= FiveMinutes
PairedYo_absolute(first, second) ==
  /\ TimeGap(first, second) < FiveMinutes
  /\ 0 - TimeGap(first, second) < FiveMinutes

PairedYo(first, second) == TimeGap(first, second) < FiveMinutes

HasMaskedData_raw(dataset) == NonNanIdx(dataset.cond) # {}

\* line 255: data remaining after the QARTOD flags are applied
HasMaskedData(dataset) == NonNanIdx(apply_qartod_qc(dataset)) # {}

\* lines 257-260: one frame per file, rows with a NaN coordinate dropped
Rows(dataset) ==
  LET copy == apply_qartod_qc(dataset)
      all == [j \in 1..Len(dataset.cond) |->
                [pressure |-> dataset.pressure[j], cond |-> copy[j]]]
  IN SelectSeq(all, LAMBDA r : ~IsNaN(r.pressure) /\ ~IsNaN(r.cond))

MergedFrame(first, second) == Rows(first) \o Rows(second)

\* lines 267-269
ClampPressure(p) == IF p < 0 THEN 0 ELSE p
pressure_range(df) ==
  LET pressure_copy == {ClampPressure(df[j].pressure) : j \in 1..Len(df)}
  IN SetMax(pressure_copy) - SetMin(pressure_copy)

RangeSufficient_inclusive(df) == pressure_range(df) >= MinPressureRange

\* line 270
RangeSufficient(df) == pressure_range(df) > MinPressureRange

\* lines 271-272
polygon_points(df) == df \o <<df[1]>>

\* line 281
data_range(df) ==
  LET values == {df[j].cond : j \in 1..Len(df)}
  IN SetMax(values) - SetMin(values)

ExceedsThreshold_inclusive(area, prange, drange, thr) ==
  area * thr.den >= drange * thr.num * prange

\* lines 280-293: area / pressure_range > data_range * threshold, with the
\* threshold num/den and pressure_range > 0
ExceedsThreshold(area, prange, drange, thr) ==
  area * thr.den > drange * thr.num * prange

PairFlag(area, prange, drange, thresholds) ==
  IF ExceedsThreshold(area, prange, drange, thresholds.fail_threshold)
  THEN FAIL
  ELSE IF ExceedsThreshold(area, prange, drange, thresholds.suspect_threshold)
       THEN SUSPECT
       ELSE GOOD

Broadcast_overwrites(init, flag) == [j \in 1..Len(init.flags) |-> flag]

\* lines 294-295: flag_vals[data_idx] = flag
Broadcast(init, flag) ==
  [j \in 1..Len(init.flags) |->
     IF j \in init.non_nan_i THEN flag ELSE init.flags[j]]

\* ------------------------------------------------------------------ state
VARIABLES
  pc,             \* "start", "deployment", "pass", "done", "crashed"
  d,              \* deployments taken from args.deployments so far
  status,         \* line 98
  exit_status,    \* value returned by main(), -1 until it returns
  ncfiles,        \* line 161
  hysteresis_thresholds,  \* line 158
  iter,           \* the counter of enumerate(ncfiles), line 172
  skip,           \* line 171
  ds2,            \* the dataset bound to the name ds2 (lines 213-214)
  failed_files,   \* line 166
  suspect_files,  \* line 167
  written,        \* save_ds calls of the current pass, in order
  errors,         \* per-file logging.error calls of the current pass
  recorded,       \* a per-deployment or per-file logging.error happened
  last,           \* the step taken last
  polygon_areas,  \* the areas shapely returned in this pass, by point list
  run,            \* 1, or 2 when the pass is run again over the same queue
  first_run,      \* what the first run of the pass did
  renamed,        \* check_duplicate_timestamps.py: the paths os.rename moved
  duplicates      \* check_duplicate_timestamps.py, line 59

vars ==
  <<pc, d, status, exit_status, ncfiles, hysteresis_thresholds, iter,
    skip, ds2, failed_files, suspect_files, written, errors, recorded, last,
    polygon_areas, run, first_run, renamed, duplicates>>

\* the value of i after line 173
cursor == iter + skip

\* the step taken: its name, the index of its first file, how far the
\* cursor moved, and the area shapely returned (0 when none was computed)
Step(op, adv, area) == [op |-> op, i |-> cursor, adv |-> adv, area |-> area]

\* lines 62-93, called on line 197: the attributes that differ between calls
set_hysteresis_attrs ==
  [standard_name |-> qc_varname \o <<"quality", "flag">>,
   qc_target |-> cv,
   flag_configurations |-> hysteresis_thresholds]

\* lines 52-59: dataset[variable_name] = da replaces the variable if the
\* file already has it
save_ds(dataset, flag_array, path) ==
  [it |-> iter, path |-> path, data |-> dataset.name, flags |-> flag_array,
   variable_name |-> qc_varname, attrs |-> set_hysteresis_attrs]

\* logging.error about a file; role tells whether the file was being read as
\* the first file of the iteration (line 175) or as the partner (line 213)
LogError(path, role, what) ==
  [it |-> iter, file |-> path, role |-> role, what |-> what]

\* nothing recorded about a first run
NoRun ==
  [written |-> << >>, errors |-> << >>, status |-> 0, failed_files |-> 0,
   suspect_files |-> 0]

\* the names of the file loop before line 157 binds them
NoThresholds ==
  [fail_threshold |-> [num |-> 0, den |-> 1],
   suspect_threshold |-> [num |-> 0, den |-> 1]]

\* lines 98-129
Init ==
  /\ pc = "start"
  /\ d = 0
  /\ status = 0
  /\ exit_status = -1
  /\ ncfiles = << >>
  /\ hysteresis_thresholds = NoThresholds
  /\ iter = 0
  /\ skip = 0
  /\ ds2 = NoDataset
  /\ failed_files = 0
  /\ suspect_files = 0
  /\ written = << >>
  /\ errors = << >>
  /\ recorded = FALSE
  /\ last = [op |-> "Init", i |-> 0, adv |-> 0, area |-> 0]
  /\ polygon_areas = {}
  /\ run = 1
  /\ first_run = NoRun
  /\ renamed = {}
  /\ duplicates = 0

\* lines 111-129: a root directory is missing, main returns 1
InvalidEnvironment ==
  /\ pc = "start"
  /\ pc' = "done"
  /\ exit_status' = 1
  /\ last' = [op |-> "InvalidEnvironment", i |-> 0, adv |-> 0, area |-> 0]
  /\ UNCHANGED <<d, status, ncfiles, hysteresis_thresholds, iter, skip, ds2,
                 failed_files, suspect_files, written, errors, recorded,
                 polygon_areas, run, first_run>>
  /\ UNCHANGED <<renamed, duplicates>>

\* lines 111-131: the roots exist, the deployment loop starts
EnterDeployments ==
  /\ pc = "start"
  /\ pc' = "deployment"
  /\ last' = [op |-> "EnterDeployments", i |-> 0, adv |-> 0, area |-> 0]
  /\ UNCHANGED <<d, status, exit_status, ncfiles, hysteresis_thresholds, iter,
                 skip, ds2, failed_files, suspect_files, written, errors,
                 recorded,
                 polygon_areas, run, first_run>>
  /\ UNCHANGED <<renamed, duplicates>>

\* line 131: args.deployments (nargs='+', at least one) has another entry
MoreDeployments == pc = "deployment" /\ d < MaxDeployments

\* lines 134-138
DataPathNotFound ==
  /\ MoreDeployments
  /\ d' = d + 1
  /\ recorded' = TRUE
  /\ last' = [op |-> "DataPathNotFound", i |-> 0, adv |-> 0, area |-> 0]
  /\ UNCHANGED <<pc, status, exit_status, ncfiles, hysteresis_thresholds,
                 iter, skip, ds2, failed_files, suspect_files, written,
                 errors,
                 polygon_areas, run, first_run>>
  /\ UNCHANGED <<renamed, duplicates>>

ConfigMissing_silent ==
  /\ MoreDeployments
  /\ d' = d + 1
  /\ recorded' = TRUE
  /\ last' = [op |-> "ConfigMissing", i |-> 0, adv |-> 0, area |-> 0]
  /\ UNCHANGED <<pc, status, exit_status, ncfiles, hysteresis_thresholds,
                 iter, skip, ds2, failed_files, suspect_files, written,
                 errors,
                 polygon_areas, run, first_run>>
  /\ UNCHANGED <<renamed, duplicates>>

\* lines 147-154
ConfigMissing ==
  /\ MoreDeployments
  /\ d' = d + 1
  /\ status' = 1
  /\ recorded' = TRUE
  /\ last' = [op |-> "ConfigMissing", i |-> 0, adv |-> 0, area |-> 0]
  /\ UNCHANGED <<pc, exit_status, ncfiles, hysteresis_thresholds, iter, skip,
                 ds2, failed_files, suspect_files, written, errors,
                 polygon_areas, run, first_run>>
  /\ UNCHANGED <<renamed, duplicates>>

\* lines 156-171
BeginPass ==
  /\ MoreDeployments
  /\ \E files \in FileLists, config \in ThresholdConfigs :
       /\ ncfiles' = files
       /\ hysteresis_thresholds' = config
  /\ pc' = "pass"
  /\ failed_files' = 0
  /\ suspect_files' = 0
  /\ skip' = 0
  /\ iter' = 0
  /\ written' = << >>
  /\ errors' = << >>
  /\ polygon_areas' = {}
  /\ last' = [op |-> "BeginPass", i |-> 0, adv |-> 0, area |-> 0]
  /\ UNCHANGED <<d, status, exit_status, ds2, recorded, run, first_run>>
  /\ UNCHANGED <<renamed, duplicates>>

\* the file loop is exhausted (line 172) and lines 315-316 are next
PassComplete == pc = "pass" /\ iter = Len(ncfiles)

EndPass_fails_empty ==
  /\ PassComplete
  /\ pc' = "deployment"
  /\ d' = d + 1
  /\ status' = (IF ncfiles = << >> THEN 1 ELSE status)
  /\ ncfiles' = << >>
  /\ hysteresis_thresholds' = NoThresholds
  /\ iter' = 0
  /\ skip' = 0
  /\ failed_files' = 0
  /\ suspect_files' = 0
  /\ written' = << >>
  /\ errors' = << >>
  /\ polygon_areas' = {}
  /\ last' = [op |-> "EndPass", i |-> 0, adv |-> 0, area |-> 0]
  /\ UNCHANGED <<exit_status, ds2, recorded, run, first_run>>
  /\ UNCHANGED <<renamed, duplicates>>

\* lines 315-316: the summary is logged and the deployment is over.  The
\* names of the file loop are not read again before lines 157-171 rebind
\* them; they are put back to their initial values here.
EndPass ==
  /\ PassComplete
  /\ pc' = "deployment"
  /\ d' = d + 1
  /\ ncfiles' = << >>
  /\ hysteresis_thresholds' = NoThresholds
  /\ iter' = 0
  /\ skip' = 0
  /\ failed_files' = 0
  /\ suspect_files' = 0
  /\ written' = << >>
  /\ errors' = << >>
  /\ polygon_areas' = {}
  /\ last' = [op |-> "EndPass", i |-> 0, adv |-> 0, area |-> 0]
  /\ UNCHANGED <<status, exit_status, ds2, recorded, run, first_run>>
  /\ UNCHANGED <<renamed, duplicates>>

\* lines 131, 317: args.deployments is exhausted
Return ==
  /\ pc = "deployment"
  /\ d >= 1
  /\ pc' = "done"
  /\ exit_status' = status
  /\ last' = [op |-> "Return", i |-> 0, adv |-> 0, area |-> 0]
  /\ UNCHANGED <<d, status, ncfiles, hysteresis_thresholds, iter, skip, ds2,
                 failed_files, suspect_files, written, errors, recorded,
                 polygon_areas, run, first_run>>
  /\ UNCHANGED <<renamed, duplicates>>

\* ------------------------------------------------- one iteration, lines 172-313
InLoop == pc = "pass" /\ iter < Len(ncfiles)

\* ncfiles[i] exists (no IndexError on line 175)
HasCurrent == InLoop /\ cursor < Len(ncfiles)
Current == ncfiles[cursor + 1]

\* line 175 succeeded
FirstOpens == HasCurrent /\ Current.readable
\* lines 184-203 passed: the variable is there and has a non-NaN sample
FirstReady ==
  /\ FirstOpens
  /\ Current.hasCv
  /\ initialize_flags(Current).non_nan_i # {}
\* line 210: the else branch of line 206
FirstDown == FirstReady /\ HasPressure(Current) /\ ~FirstIsUp(Current)

\* line 212: ncfiles[i + 1] exists
HasNext == cursor + 1 < Len(ncfiles)
NextFile == ncfiles[cursor + 2]

\* lines 213-218: a failed open leaves ds2 bound to what it was bound to
\* before, counts one skip and sets status; control then falls to line 225
Ds2AfterOpen == IF NextFile.readable THEN NextFile ELSE ds2
SkipAfterOpen == IF NextFile.readable THEN skip ELSE skip + 1
StatusAfterOpen == IF NextFile.readable THEN status ELSE 1
ErrorsAfterOpen ==
  IF NextFile.readable THEN << >> ELSE <<LogError(cursor + 1, "second", "read")>>

\* line 225 is reached and the name ds2 is bound
SecondBound == FirstDown /\ HasNext /\ Ds2AfterOpen # NoDataset
\* line 235 is reached
SecondReady == SecondBound /\ Ds2AfterOpen.hasCv
\* line 243: the else branch of line 238
SecondUp ==
  /\ SecondReady
  /\ HasPressure(Ds2AfterOpen)
  /\ ~SecondIsDown(Ds2AfterOpen)
\* line 247 holds
Paired == SecondUp /\ PairedYo(Current, Ds2AfterOpen)
\* line 255 holds
Mergeable ==
  /\ Paired
  /\ HasMaskedData(Current)
  /\ HasMaskedData(Ds2AfterOpen)

\* the loop body ran to a `continue` or to its end
AdvanceWith(op, area, newSkip, newStatus, newDs2, writes, errs, nf, ns) ==
  /\ pc' = "pass"
  /\ iter' = iter + 1
  /\ skip' = newSkip
  /\ status' = newStatus
  /\ ds2' = newDs2
  /\ written' = written \o writes
  /\ errors' = errors \o errs
  /\ recorded' = (recorded \/ errs # << >>)
  /\ failed_files' = nf
  /\ suspect_files' = ns
  /\ last' = Step(op, 1 + newSkip - skip, area)
  /\ UNCHANGED <<d, exit_status, ncfiles, hysteresis_thresholds, run,
                 first_run>>
  /\ UNCHANGED <<renamed, duplicates>>

Advance(op, newSkip, newStatus, newDs2, writes, errs, newFailed, newSuspect) ==
  /\ AdvanceWith(op, 0, newSkip, newStatus, newDs2, writes, errs, newFailed,
                 newSuspect)
  /\ UNCHANGED polygon_areas

\* the loop body raised an exception that nothing catches
Raise(op, newSkip, newStatus, newDs2, errs) ==
  /\ pc' = "crashed"
  /\ skip' = newSkip
  /\ status' = newStatus
  /\ ds2' = newDs2
  /\ errors' = errors \o errs
  /\ recorded' = (recorded \/ errs # << >>)
  /\ last' = Step(op, 0, 0)
  /\ UNCHANGED <<d, exit_status, ncfiles, hysteresis_thresholds, iter,
                 failed_files, suspect_files, written, polygon_areas, run,
                 first_run>>
  /\ UNCHANGED <<renamed, duplicates>>

\* lines 175, 181-182: i + skip is past the end of the list
PastEnd ==
  /\ InLoop
  /\ ~HasCurrent
  /\ Advance("PastEnd", skip, status, ds2, << >>, << >>,
             failed_files, suspect_files)

\* lines 175-180
FirstUnreadable ==
  /\ HasCurrent
  /\ ~Current.readable
  /\ Advance("FirstUnreadable", skip, 1, ds2, << >>,
             <<LogError(cursor, "first", "read")>>, failed_files, suspect_files)

\* lines 184-189
FirstNoVariable ==
  /\ FirstOpens
  /\ ~Current.hasCv
  /\ Advance("FirstNoVariable", skip, 1, ds2, << >>,
             <<LogError(cursor, "first", "variable")>>, failed_files, suspect_files)

\* lines 198-203
FirstNoData ==
  /\ FirstOpens
  /\ Current.hasCv
  /\ initialize_flags(Current).non_nan_i = {}
  /\ Advance("FirstNoData", skip, 1, ds2, << >>,
             <<LogError(cursor, "first", "data")>>, failed_files, suspect_files)

\* line 206: indexing an empty pressure array raises IndexError
FirstNoPressure ==
  /\ FirstReady
  /\ ~HasPressure(Current)
  /\ Raise("FirstNoPressure", skip, status, ds2, << >>)

UpAlone_unsaved ==
  /\ FirstReady
  /\ HasPressure(Current)
  /\ FirstIsUp(Current)
  /\ Advance("UpAlone", skip, status, ds2, << >>, << >>, failed_files,
             suspect_files)

\* lines 206-209
UpAlone ==
  /\ FirstReady
  /\ HasPressure(Current)
  /\ FirstIsUp(Current)
  /\ Advance("UpAlone", skip, status, ds2,
             <<save_ds(Current, initialize_flags(Current).flags, cursor)>>,
             << >>, failed_files, suspect_files)

DownLast_unsaved ==
  /\ FirstDown
  /\ ~HasNext
  /\ Advance("DownLast", skip, status, ds2, << >>, << >>, failed_files,
             suspect_files)

\* lines 211-212, 219-223
DownLast ==
  /\ FirstDown
  /\ ~HasNext
  /\ Advance("DownLast", skip, status, ds2,
             <<save_ds(Current, initialize_flags(Current).flags, cursor)>>,
             << >>, failed_files, suspect_files)

\* lines 213-218, 226: the open failed and ds2 was never bound, NameError
SecondUnbound ==
  /\ FirstDown
  /\ HasNext
  /\ Ds2AfterOpen = NoDataset
  /\ Raise("SecondUnbound", SkipAfterOpen, StatusAfterOpen, Ds2AfterOpen,
           ErrorsAfterOpen)

\* lines 225-233
SecondNoVariable ==
  /\ SecondBound
  /\ ~Ds2AfterOpen.hasCv
  /\ Advance("SecondNoVariable", SkipAfterOpen, 1, Ds2AfterOpen,
             <<save_ds(Current, initialize_flags(Current).flags, cursor)>>,
             ErrorsAfterOpen \o <<LogError(cursor + 1, "second", "variable")>>,
             failed_files, suspect_files)

\* line 238: indexing an empty pressure array raises IndexError
SecondNoPressure ==
  /\ SecondReady
  /\ ~HasPressure(Ds2AfterOpen)
  /\ Raise("SecondNoPressure", SkipAfterOpen, StatusAfterOpen, Ds2AfterOpen,
           ErrorsAfterOpen)

SecondAlsoDown_skips ==
  /\ SecondReady
  /\ HasPressure(Ds2AfterOpen)
  /\ SecondIsDown(Ds2AfterOpen)
  /\ Advance("SecondAlsoDown", SkipAfterOpen + 1, StatusAfterOpen,
             Ds2AfterOpen,
             <<save_ds(Current, initialize_flags(Current).flags, cursor)>>,
             ErrorsAfterOpen, failed_files, suspect_files)

\* lines 238-242
SecondAlsoDown ==
  /\ SecondReady
  /\ HasPressure(Ds2AfterOpen)
  /\ SecondIsDown(Ds2AfterOpen)
  /\ Advance("SecondAlsoDown", SkipAfterOpen, StatusAfterOpen, Ds2AfterOpen,
             <<save_ds(Current, initialize_flags(Current).flags, cursor)>>,
             ErrorsAfterOpen, failed_files, suspect_files)

\* both files saved and one more skip (lines 299-301, 305-307, 311-313)
SavePair(op, area, flag_vals, flag_vals2, newFailed, newSuspect) ==
  AdvanceWith(op, area, SkipAfterOpen + 1, StatusAfterOpen, Ds2AfterOpen,
              <<save_ds(Current, flag_vals, cursor),
                save_ds(Ds2AfterOpen, flag_vals2, cursor + 1)>>,
              ErrorsAfterOpen, newFailed, newSuspect)

\* lines 247, 308-313
PairTooFar ==
  /\ SecondUp
  /\ ~PairedYo(Current, Ds2AfterOpen)
  /\ SavePair("PairTooFar", 0, initialize_flags(Current).flags,
              initialize_flags(Ds2AfterOpen).flags,
              failed_files, suspect_files)
  /\ UNCHANGED polygon_areas

\* lines 255, 303-307
PairNoData ==
  /\ Paired
  /\ ~(HasMaskedData(Current) /\ HasMaskedData(Ds2AfterOpen))
  /\ SavePair("PairNoData", 0, initialize_flags(Current).flags,
              initialize_flags(Ds2AfterOpen).flags,
              failed_files, suspect_files)
  /\ UNCHANGED polygon_areas

\* line 269: np.nanmax of an empty array raises ValueError
PairEmptyFrame ==
  /\ Mergeable
  /\ MergedFrame(Current, Ds2AfterOpen) = << >>
  /\ Raise("PairEmptyFrame", SkipAfterOpen, StatusAfterOpen, Ds2AfterOpen,
           ErrorsAfterOpen)

\* lines 270, 297-301
PairInconclusive ==
  /\ Mergeable
  /\ MergedFrame(Current, Ds2AfterOpen) # << >>
  /\ ~RangeSufficient(MergedFrame(Current, Ds2AfterOpen))
  /\ SavePair("PairInconclusive", 0, initialize_flags(Current).flags,
              initialize_flags(Ds2AfterOpen).flags,
              failed_files, suspect_files)
  /\ UNCHANGED polygon_areas

\* lines 273-277, 280: the area of a point list is a function of the list;
\* what shapely returned for a list it returns for that list again
ValidPolygonsArea(points, area) ==
  \A p \in polygon_areas : p.points = points => p.area = area

PairEvaluated_counts_pairs ==
  /\ Mergeable
  /\ MergedFrame(Current, Ds2AfterOpen) # << >>
  /\ RangeSufficient(MergedFrame(Current, Ds2AfterOpen))
  /\ \E area \in Areas :
       LET df == MergedFrame(Current, Ds2AfterOpen)
           flag == PairFlag(area, pressure_range(df), data_range(df),
                            hysteresis_thresholds)
       IN /\ ValidPolygonsArea(polygon_points(df), area)
          /\ polygon_areas' = polygon_areas \cup
               {[points |-> polygon_points(df), area |-> area]}
          /\ SavePair("PairEvaluated", area,
                      Broadcast(initialize_flags(Current), flag),
                      Broadcast(initialize_flags(Ds2AfterOpen), flag),
                      IF flag = FAIL THEN failed_files + 1 ELSE failed_files,
                      IF flag = SUSPECT THEN suspect_files + 1
                                        ELSE suspect_files)

\* lines 270-301
PairEvaluated ==
  /\ Mergeable
  /\ MergedFrame(Current, Ds2AfterOpen) # << >>
  /\ RangeSufficient(MergedFrame(Current, Ds2AfterOpen))
  /\ \E area \in Areas :
       LET df == MergedFrame(Current, Ds2AfterOpen)
           flag == PairFlag(area, pressure_range(df), data_range(df),
                            hysteresis_thresholds)
       IN /\ ValidPolygonsArea(polygon_points(df), area)
          /\ polygon_areas' = polygon_areas \cup
               {[points |-> polygon_points(df), area |-> area]}
          /\ SavePair("PairEvaluated", area,
                      Broadcast(initialize_flags(Current), flag),
                      Broadcast(initialize_flags(Ds2AfterOpen), flag),
                      IF flag = FAIL THEN failed_files + 2 ELSE failed_files,
                      IF flag = SUSPECT THEN suspect_files + 2
                                        ELSE suspect_files)

Next ==
  \/ InvalidEnvironment
  \/ EnterDeployments
  \/ DataPathNotFound
  \/ ConfigMissing
  \/ BeginPass
  \/ EndPass
  \/ Return
  \/ PastEnd
  \/ FirstUnreadable
  \/ FirstNoVariable
  \/ FirstNoData
  \/ FirstNoPressure
  \/ UpAlone
  \/ DownLast
  \/ SecondUnbound
  \/ SecondNoVariable
  \/ SecondNoPressure
  \/ SecondAlsoDown
  \/ PairTooFar
  \/ PairNoData
  \/ PairEmptyFrame
  \/ PairInconclusive
  \/ PairEvaluated

Spec == Init /\ [][Next]_vars

TypeOK ==
  /\ pc \in {"start", "deployment", "pass", "done", "crashed"}
  /\ status \in {0, 1}
  /\ iter \in 0..Len(ncfiles)
  /\ skip \in 0..(2 * Len(ncfiles))

\* ------------------------------------------------ the pass, run twice
\* the last save_ds call of the pass for the path at index j, if any
Persisted(j) == SelectSeq(written, LAMBDA w : w.path = j)

\* the dataset read from a file after save_ds(dataset, flag_array, ...) has
\* written it: the same variables and the hysteresis variable
Annotated(dataset, flag_array) ==
  [name |-> dataset.name, readable |-> dataset.readable,
   hasCv |-> dataset.hasCv, time |-> dataset.time,
   pressure |-> dataset.pressure, cond |-> dataset.cond,
   qartod |-> dataset.qartod, hysteresis |-> flag_array]

\* the queue as the first run left it on disk
QueueAfterRun ==
  [j \in 1..Len(ncfiles) |->
     IF Persisted(j - 1) = << >>
     THEN ncfiles[j]
     ELSE Annotated(ncfiles[j], Persisted(j - 1)[Len(Persisted(j - 1))].flags)]

\* every save_ds call of the pass wrote a file's own dataset to its path, so
\* that the queue differs from what it was by the hysteresis variable only
OnlyAnnotated ==
  \A a \in 1..Len(written) :
    /\ written[a].path + 1 <= Len(ncfiles)
    /\ ncfiles[written[a].path + 1].readable
    /\ written[a].data = ncfiles[written[a].path + 1].name

\* lines 315-317 of the first run, then lines 98-171 of a second run of the
\* script on the same deployment: the same configuration and the same queue,
\* whose files now hold the hysteresis variable the first run wrote
Rerun ==
  /\ PassComplete
  /\ run = 1
  /\ OnlyAnnotated
  /\ run' = 2
  /\ first_run' = [written |-> written, errors |-> errors, status |-> status,
                   failed_files |-> failed_files,
                   suspect_files |-> suspect_files]
  /\ ncfiles' = QueueAfterRun
  /\ status' = 0
  /\ ds2' = NoDataset
  /\ iter' = 0
  /\ skip' = 0
  /\ failed_files' = 0
  /\ suspect_files' = 0
  /\ written' = << >>
  /\ errors' = << >>
  /\ recorded' = FALSE
  /\ last' = [op |-> "Rerun", i |-> 0, adv |-> 0, area |-> 0]
  /\ UNCHANGED <<pc, d, exit_status, hysteresis_thresholds, polygon_areas>>
  /\ UNCHANGED <<renamed, duplicates>>

\* the first deployment of a run, and the same deployment run again
RerunNext ==
  \/ EnterDeployments
  \/ BeginPass
  \/ Rerun
  \/ PastEnd
  \/ FirstUnreadable
  \/ FirstNoVariable
  \/ FirstNoData
  \/ FirstNoPressure
  \/ UpAlone
  \/ DownLast
  \/ SecondUnbound
  \/ SecondNoVariable
  \/ SecondNoPressure
  \/ SecondAlsoDown
  \/ PairTooFar
  \/ PairNoData
  \/ PairEmptyFrame
  \/ PairInconclusive
  \/ PairEvaluated

SpecRerun == Init /\ [][RerunNext]_vars

\* ------------------------------------- scripts/check_duplicate_timestamps.py
\* The second script of the repository shares the names status, ncfiles and
\* the deployment loop with the hysteresis test; its file loop is modelled
\* on the same variables.  A queue file is a record of the set of its
\* ds.time.values and of whether xr.open_dataset can read it; the path of
\* the file at index j + 1 of the list is j.

\* the longest queue listed on line 56
MaxQueue == 3

\* the timestamps a queue file may hold
Timestamps == {1, 2}

\* the files of a queue: readable files with a non-empty set of timestamps,
\* and a file xr.open_dataset cannot read
QueueFiles ==
  {[time |-> t, readable |-> TRUE] : t \in (SUBSET Timestamps) \ {{}}}
    \cup {[time |-> {}, readable |-> FALSE]}

\* line 56: sorted(glob.glob(...)), the sorted names are the indices
QueueLists == UNION {[1..n -> QueueFiles] : n \in 0..MaxQueue}

\* the variables only the hysteresis test uses
hysteresis_vars ==
  <<hysteresis_thresholds, skip, ds2, failed_files, suspect_files, written,
    polygon_areas, run, first_run>>

\* lines 62, 72: xr.open_dataset(path) returns a dataset; it raises OSError
\* for a file it cannot read and FileNotFoundError, a subclass of OSError,
\* for a path that os.rename has moved away
Opens(j) ==
  /\ j < Len(ncfiles)
  /\ ncfiles[j + 1].readable
  /\ j \notin renamed

\* line 80: set(ds.time.values).symmetric_difference(set(ds2.time.values))
unique_timestamps(ds, other) == (ds.time \ other.time) \cup (other.time \ ds.time)

\* lines 83-84: the timestamps of ds that are among unique_timestamps
check_ds(ds, other) == ds.time \cap unique_timestamps(ds, other)

\* one iteration of the loop of line 60 is over
NextFileStep(op, newStatus, errs, moved) ==
  /\ pc' = "pass"
  /\ iter' = iter + 1
  /\ status' = newStatus
  /\ errors' = errors \o errs
  /\ recorded' = (recorded \/ errs # << >>)
  /\ renamed' = renamed \cup moved
  /\ duplicates' = duplicates + Cardinality(moved)
  /\ last' = [op |-> op, i |-> iter, adv |-> 1, area |-> 0]
  /\ UNCHANGED <<d, exit_status, ncfiles>>
  /\ UNCHANGED hysteresis_vars

\* lines 36-37, 109: deployments_root is not a string, the body of the if is
\* skipped and main returns None, which sys.exit reports as 0
RootNotFound ==
  /\ pc = "start"
  /\ pc' = "done"
  /\ exit_status' = 0
  /\ last' = [op |-> "RootNotFound", i |-> 0, adv |-> 0, area |-> 0]
  /\ UNCHANGED <<d, status, ncfiles, iter, errors, recorded, renamed,
                 duplicates>>
  /\ UNCHANGED hysteresis_vars

\* lines 36-39: the deployment loop starts
EnterQueues ==
  /\ pc = "start"
  /\ pc' = "deployment"
  /\ last' = [op |-> "EnterQueues", i |-> 0, adv |-> 0, area |-> 0]
  /\ UNCHANGED <<d, status, exit_status, ncfiles, iter, errors, recorded,
                 renamed, duplicates>>
  /\ UNCHANGED hysteresis_vars

\* lines 45-47
QueuePathNotFound ==
  /\ MoreDeployments
  /\ d' = d + 1
  /\ recorded' = TRUE
  /\ last' = [op |-> "QueuePathNotFound", i |-> 0, adv |-> 0, area |-> 0]
  /\ UNCHANGED <<pc, status, exit_status, ncfiles, iter, errors, renamed,
                 duplicates>>
  /\ UNCHANGED hysteresis_vars

\* lines 49-51
ProcLogsNotFound ==
  /\ MoreDeployments
  /\ d' = d + 1
  /\ recorded' = TRUE
  /\ last' = [op |-> "ProcLogsNotFound", i |-> 0, adv |-> 0, area |-> 0]
  /\ UNCHANGED <<pc, status, exit_status, ncfiles, iter, errors, renamed,
                 duplicates>>
  /\ UNCHANGED hysteresis_vars

\* lines 53-60
ListQueue ==
  /\ MoreDeployments
  /\ \E files \in QueueLists : ncfiles' = files
  /\ pc' = "pass"
  /\ iter' = 0
  /\ errors' = << >>
  /\ renamed' = {}
  /\ duplicates' = 0
  /\ last' = [op |-> "ListQueue", i |-> 0, adv |-> 0, area |-> 0]
  /\ UNCHANGED <<d, status, exit_status, recorded>>
  /\ UNCHANGED hysteresis_vars

\* the loop of line 60 has another file
InQueue == pc = "pass" /\ iter < Len(ncfiles)

\* lines 61-66: the file of this iteration cannot be opened
OpenFails ==
  /\ InQueue
  /\ ~Opens(iter)
  /\ NextFileStep("OpenFails", 1, <<LogError(iter, "first", "read")>>, {})

\* lines 69-71, 76-77: ncfiles[i + 1] raises IndexError
NoNextFile ==
  /\ InQueue
  /\ Opens(iter)
  /\ iter + 1 = Len(ncfiles)
  /\ NextFileStep("NoNextFile", status, << >>, {})

\* lines 69-75: the next file cannot be opened
NextOpenFails ==
  /\ InQueue
  /\ Opens(iter)
  /\ iter + 1 < Len(ncfiles)
  /\ ~Opens(iter + 1)
  /\ NextFileStep("NextOpenFails", 1,
                  <<LogError(iter + 1, "second", "read")>>, {})

\* both files of the iteration are open (line 80 is reached)
BothOpen ==
  /\ InQueue
  /\ Opens(iter)
  /\ iter + 1 < Len(ncfiles)
  /\ Opens(iter + 1)

\* lines 88-91: the timestamps are the same, the second file is renamed
RenameIdentical ==
  /\ BothOpen
  /\ check_ds(ncfiles[iter + 1], ncfiles[iter + 2]) = {}
  /\ check_ds(ncfiles[iter + 2], ncfiles[iter + 1]) = {}
  /\ NextFileStep("RenameIdentical", status, << >>, {iter + 1})

\* lines 93-96: every timestamp of the second file is in the first
RenameSecond ==
  /\ BothOpen
  /\ check_ds(ncfiles[iter + 1], ncfiles[iter + 2]) # {}
  /\ check_ds(ncfiles[iter + 2], ncfiles[iter + 1]) = {}
  /\ NextFileStep("RenameSecond", status, << >>, {iter + 1})

\* lines 98-102: every timestamp of the first file is in the second.  The
\* file was opened on line 62 of this iteration, so os.rename finds it and
\* the handler of line 103 is not entered.
RenameFirst ==
  /\ BothOpen
  /\ check_ds(ncfiles[iter + 1], ncfiles[iter + 2]) = {}
  /\ check_ds(ncfiles[iter + 2], ncfiles[iter + 1]) # {}
  /\ NextFileStep("RenameFirst", status, << >>, {iter})

\* lines 105-106: each file has timestamps the other lacks
NoDuplicate ==
  /\ BothOpen
  /\ check_ds(ncfiles[iter + 1], ncfiles[iter + 2]) # {}
  /\ check_ds(ncfiles[iter + 2], ncfiles[iter + 1]) # {}
  /\ NextFileStep("NoDuplicate", status, << >>, {})

\* line 108: the count is logged and the deployment is over; the names of
\* the file loop are put back to their initial values, as in EndPass
LogDuplicates ==
  /\ PassComplete
  /\ pc' = "deployment"
  /\ d' = d + 1
  /\ ncfiles' = << >>
  /\ iter' = 0
  /\ errors' = << >>
  /\ renamed' = {}
  /\ duplicates' = 0
  /\ last' = [op |-> "LogDuplicates", i |-> 0, adv |-> 0, area |-> 0]
  /\ UNCHANGED <<status, exit_status, recorded>>
  /\ UNCHANGED hysteresis_vars

\* lines 39, 109: args.deployments is exhausted
ReturnStatus ==
  /\ pc = "deployment"
  /\ d >= 1
  /\ pc' = "done"
  /\ exit_status' = status
  /\ last' = [op |-> "ReturnStatus", i |-> 0, adv |-> 0, area |-> 0]
  /\ UNCHANGED <<d, status, ncfiles, iter, errors, recorded, renamed,
                 duplicates>>
  /\ UNCHANGED hysteresis_vars

DuplicatesNext ==
  \/ RootNotFound
  \/ EnterQueues
  \/ QueuePathNotFound
  \/ ProcLogsNotFound
  \/ ListQueue
  \/ OpenFails
  \/ NoNextFile
  \/ NextOpenFails
  \/ RenameIdentical
  \/ RenameSecond
  \/ RenameFirst
  \/ NoDuplicate
  \/ LogDuplicates
  \/ ReturnStatus

SpecDuplicates == Init /\ [][DuplicatesNext]_vars

\* ------------------------------------------------------------- vocabulary
\* the sequence s without its first n elements
DropFirst(s, n) == SubSeq(s, n + 1, Len(s))

\* the save_ds calls and the logged errors a step adds
NewWrites == DropFirst(written', Len(written))
NewErrors == DropFirst(errors', Len(errors))

OnlyUnknownMissing(flag_array) ==
  \A j \in 1..Len(flag_array) : flag_array[j] \in {UNKNOWN, MISSING}

\* a write of dataset f, all of it UNKNOWN or MISSING, to the path at index
WroteUnknown(w, f, index) ==
  /\ w.path = index
  /\ w.data = f.name
  /\ Len(w.flags) = Len(f.cond)
  /\ OnlyUnknownMissing(w.flags)

\* a readable file that holds the target variable and whose first valid
\* pressure is below (down) or above (up) its last valid pressure
IsDownFile(f) ==
  /\ f.readable
  /\ f.hasCv
  /\ HasPressure(f)
  /\ FirstPressure(f) < LastPressure(f)
IsUpFile(f) ==
  /\ f.readable
  /\ f.hasCv
  /\ HasPressure(f)
  /\ FirstPressure(f) > LastPressure(f)

\* a readable file with the target variable that the code takes as the
\* first of a pair (line 210) or as the second of a pair (line 243)
TakenAsDown(f) ==
  /\ f.readable
  /\ f.hasCv
  /\ HasPressure(f)
  /\ ~FirstIsUp(f)
TakenAsUp(f) ==
  /\ f.readable
  /\ f.hasCv
  /\ HasPressure(f)
  /\ ~SecondIsDown(f)

HasRawData(f) == NonNanIdx(f.cond) # {}

\* the steps that are one iteration of the file loop with a file at the cursor
FileSteps ==
  {"FirstUnreadable", "FirstNoVariable", "FirstNoData", "UpAlone", "DownLast",
   "SecondNoVariable", "SecondAlsoDown", "PairTooFar", "PairNoData",
   "PairInconclusive", "PairEvaluated"}
PairSteps == {"PairTooFar", "PairNoData", "PairInconclusive", "PairEvaluated"}

\* the writes of the iteration that has just ended
LastWrites == SelectSeq(written, LAMBDA w : w.it = iter - 1)

\* index j of the list has been handled: it was the first file of an
\* iteration (written, or its error logged), or it was written as a partner
Handled(j) ==
  \/ \E a \in 1..Len(written) : written[a].path = j
  \/ \E a \in 1..Len(errors) : errors[a].file = j /\ errors[a].role = "first"

\* ------------------------------------------------------------------ claims

\* C1: in one pass every file is processed exactly once: the cursor advances
\* by exactly two after a pair has been written and by exactly one after a
\* single file has been handled, no index below the cursor was left
\* unhandled, and no path is written twice.
C1_Orig_ExactlyOnce ==
  (pc = "pass" /\ last.op \in FileSteps) =>
    /\ last.adv = (IF Len(LastWrites) = 2 THEN 2 ELSE 1)
    /\ \A j \in 0..(Len(ncfiles) - 1) : j < cursor => Handled(j)
    /\ \A a, b \in 1..Len(written) :
         a # b => written[a].path # written[b].path

\* C2: when the current file is a down profile and the next file cannot be
\* read, the step logs the read error, writes the current file alone with
\* UNKNOWN/MISSING flags and moves the cursor by exactly one, so that the
\* unreadable file is the first file of the next iteration.
C2_Orig_NextUnreadable ==
  [][(/\ HasCurrent
      /\ IsDownFile(Current)
      /\ HasRawData(Current)
      /\ HasNext
      /\ ~NextFile.readable)
     => /\ pc' = "pass"
        /\ status' = 1
        /\ \E a \in 1..Len(NewErrors) :
             NewErrors[a].file = cursor + 1 /\ NewErrors[a].what = "read"
        /\ Len(NewWrites) = 1
        /\ WroteUnknown(NewWrites[1], Current, cursor)
        /\ iter' + skip' = cursor + 1
        /\ iter' < Len(ncfiles)]_vars

\* C3: no per-file condition aborts the pass: main() never ends in an
\* uncaught exception, and the file loop ends only with the cursor past the
\* last file.
C3_Orig_NoAbort ==
  /\ pc # "crashed"
  /\ (PassComplete => cursor >= Len(ncfiles))

CursorAfter == iter' + skip'

\* the step wrote exactly file f at the cursor, flags UNKNOWN/MISSING only
WroteCurrentAlone ==
  /\ Len(NewWrites) = 1
  /\ WroteUnknown(NewWrites[1], Current, cursor)

\* the step wrote the file at the cursor and the file after it, each with its
\* own data and with UNKNOWN/MISSING flags only
WroteBothUnknown ==
  /\ Len(NewWrites) = 2
  /\ WroteUnknown(NewWrites[1], Current, cursor)
  /\ WroteUnknown(NewWrites[2], NextFile, cursor + 1)

DownByPressure(f) ==
  /\ f.readable
  /\ HasPressure(f)
  /\ FirstPressure(f) < LastPressure(f)

NoneLeftAfterMasking(f) ==
  \A j \in 1..Len(f.cond) :
    IsNaN(f.cond[j]) \/ f.qartod[j] \in {SUSPECT, FAIL}

CarriesFlag(w, flag) ==
  /\ \A j \in 1..Len(w.flags) : w.flags[j] \in {flag, MISSING}
  /\ \E j \in 1..Len(w.flags) : w.flags[j] = flag

\* the frame the evaluating step merged, and its two ranges
EvaluatedFrame == MergedFrame(ncfiles[last.i + 1], ds2)
HalfAndFifth ==
  [fail_threshold |-> [num |-> 1, den |-> 2],
   suspect_threshold |-> [num |-> 1, den |-> 5]]

\* C10: for an evaluated pair, with area_normalized = area / pressure_range,
\* both files carry FAIL exactly when area_normalized > data_range *
\* fail_threshold, SUSPECT exactly when that fails and area_normalized >
\* data_range * suspect_threshold, GOOD otherwise; with thresholds 0.5 and
\* 0.2, data range 10 and pressure range 20, area 120 gives FAIL, 45 and 100
\* give SUSPECT, 10 and 40 give GOOD.
C10_PairFlag ==
  (pc = "pass" /\ last.op = "PairEvaluated") =>
    LET prange == pressure_range(EvaluatedFrame)
        drange == data_range(EvaluatedFrame)
        fail == hysteresis_thresholds.fail_threshold
        suspect == hysteresis_thresholds.suspect_threshold
        overFail == last.area * fail.den > drange * fail.num * prange
        overSuspect ==
          last.area * suspect.den > drange * suspect.num * prange
        flag == IF overFail THEN FAIL
                ELSE IF overSuspect THEN SUSPECT ELSE GOOD
    IN /\ Len(LastWrites) = 2
       /\ CarriesFlag(LastWrites[1], flag)
       /\ CarriesFlag(LastWrites[2], flag)
       /\ (hysteresis_thresholds = HalfAndFifth /\ drange = 10 /\ prange = 20)
          => /\ last.area = 120 => flag = FAIL
             /\ last.area \in {45, 100} => flag = SUSPECT
             /\ last.area \in {10, 40} => flag = GOOD

C10_Witness ==
  /\ pc = "pass"
  /\ last.op = "PairEvaluated"
  /\ hysteresis_thresholds = HalfAndFifth
  /\ data_range(EvaluatedFrame) = 10
  /\ pressure_range(EvaluatedFrame) = 20
  /\ last.area = 45
  /\ CarriesFlag(LastWrites[1], SUSPECT)
  /\ CarriesFlag(LastWrites[2], SUSPECT)

\* the dataset a save_ds call persisted, looked up by its name
DatasetOf(w) == CHOOSE f \in FileKinds : f.name = w.data

\* write w carries flag F on every sample that initialize_flags left UNKNOWN
\* and MISSING on every sample it left MISSING
BroadcastOver(w, F) ==
  LET before == initialize_flags(DatasetOf(w)).flags
  IN /\ Len(w.flags) = Len(before)
     /\ \A j \in 1..Len(before) :
          /\ before[j] = UNKNOWN => w.flags[j] = F
          /\ before[j] = MISSING => w.flags[j] = MISSING

\* C11: after a pair has been evaluated, there is one flag F among GOOD,
\* SUSPECT and FAIL such that, in the annotation written for each of the two
\* members, every sample that was UNKNOWN before the decision carries F and
\* every sample that was MISSING is still MISSING; so no two non-MISSING
\* samples of the pair differ.
C11_Broadcast ==
  (pc = "pass" /\ last.op = "PairEvaluated") =>
    /\ Len(LastWrites) = 2
    /\ LastWrites[1].data = ncfiles[last.i + 1].name
    /\ LastWrites[2].data = ds2.name
    /\ \E F \in {GOOD, SUSPECT, FAIL} :
         BroadcastOver(LastWrites[1], F) /\ BroadcastOver(LastWrites[2], F)
    /\ \A a, b \in 1..2 :
         \A j \in 1..Len(LastWrites[a].flags),
            k \in 1..Len(LastWrites[b].flags) :
           (LastWrites[a].flags[j] # MISSING /\ LastWrites[b].flags[k] # MISSING)
             => LastWrites[a].flags[j] = LastWrites[b].flags[k]

C11_Witness ==
  /\ pc = "pass"
  /\ last.op = "PairEvaluated"
  /\ Len(LastWrites) = 2
  /\ \A j \in 1..Len(LastWrites[1].flags) : LastWrites[1].flags[j] = FAIL
  /\ \E j \in 1..Len(LastWrites[2].flags) : LastWrites[2].flags[j] = MISSING
  /\ \E j \in 1..Len(LastWrites[2].flags) : LastWrites[2].flags[j] = FAIL

\* C12: in every annotation written, by whichever branch, a sample is MISSING
\* exactly when the target variable of the dataset written is NaN at that
\* sample.
C12_MissingIffNaN ==
  \A a \in 1..Len(written) :
    LET w == written[a]
        f == DatasetOf(w)
    IN /\ Len(w.flags) = Len(f.cond)
       /\ \A j \in 1..Len(w.flags) :
            (w.flags[j] = MISSING) <=> IsNaN(f.cond[j])

\* a file with a NaN pressure beside a numeric target value and a NaN target
\* value beside a numeric pressure, written alone as the last down file
C12_Witness ==
  /\ pc = "pass"
  /\ last.op = "DownLast"
  /\ Len(LastWrites) = 1
  /\ LET w == LastWrites[1]
         f == DatasetOf(w)
     IN \E j, k \in 1..Len(w.flags) :
          /\ IsNaN(f.pressure[j]) /\ ~IsNaN(f.cond[j]) /\ w.flags[j] = UNKNOWN
          /\ IsNaN(f.cond[k]) /\ ~IsNaN(f.pressure[k]) /\ w.flags[k] = MISSING


\* the save_ds calls of the pass made for the path at index j
WritesAt(j) == SelectSeq(written, LAMBDA w : w.path = j)

\* the file at index j carries an annotation as long as its own sample count
CarriesOwnArray(j) ==
  /\ WritesAt(j) # << >>
  /\ \A a \in 1..Len(WritesAt(j)) :
       Len(WritesAt(j)[a].flags) = Len(ncfiles[j + 1].cond)

AllReadable == \A j \in 1..Len(ncfiles) : ncfiles[j].readable

AtLastFile == HasCurrent /\ cursor + 1 = Len(ncfiles)

\* nothing is written once the cursor is past the end of the list
NoWriteAfterEnd ==
  (pc = "pass" /\ cursor >= Len(ncfiles) /\ pc' = "pass") => written' = written

LacksVariable(f) == f.readable /\ ~f.hasCv

\* the errors logged about the missing variable of the file at index j
VariableErrors(j) ==
  SelectSeq(errors, LAMBDA e : e.file = j /\ e.what = "variable")

\* C15: when a file opens but lacks the target variable, an error is logged
\* and status is nonzero.  Met as the first file of an iteration, nothing is
\* written for it and the cursor moves by one.  Met as the partner of a down
\* file, the down file is written alone with UNKNOWN/MISSING flags only and
\* the cursor moves by two, past both files, so that only one error is ever
\* logged about the partner.
C15_Orig_NoVariable ==
  (pc = "pass" /\ last.op \in FileSteps) =>
    LET f == ncfiles[last.i + 1]
    IN /\ LacksVariable(f)
          => /\ status = 1
             /\ VariableErrors(last.i) # << >>
             /\ LastWrites = << >>
             /\ last.adv = 1
       /\ (/\ IsDownFile(f)
           /\ HasRawData(f)
           /\ last.i + 2 <= Len(ncfiles)
           /\ LacksVariable(ncfiles[last.i + 2]))
          => /\ status = 1
             /\ Len(LastWrites) = 1
             /\ WroteUnknown(LastWrites[1], f, last.i)
             /\ last.adv = 2
       /\ \A j \in 0..(Len(ncfiles) - 1) : Len(VariableErrors(j)) <= 1

\* C16: when neither threshold configuration file exists, the deployment is
\* left before line 161 lists its files: the step opens no file, writes no
\* file and logs no per-file error, it sets status to 1, and the deployment
\* loop goes on: main() has not returned, and the files of the next
\* deployment of the argument list, if there is one, are processed.
C16_ConfigMissing ==
  [][(MoreDeployments /\ last'.op = "ConfigMissing")
     => /\ status' = 1
        /\ recorded'
        /\ NewWrites = << >>
        /\ NewErrors = << >>
        /\ UNCHANGED <<ncfiles, iter, skip, ds2, failed_files, suspect_files>>
        /\ d' = d + 1
        /\ pc' = "deployment"
        /\ exit_status' = -1
        /\ (d' < MaxDeployments => (ENABLED BeginPass)')]_vars

\* the first deployment has just been left for want of a configuration file
\* and the pass over the second deployment's files can begin
C16_Witness ==
  /\ last.op = "ConfigMissing"
  /\ pc = "deployment"
  /\ d = 1
  /\ status = 1
  /\ written = << >>
  /\ ENABLED BeginPass

\* C17: what save_ds persists at a path is the dataset that was read from that
\* very path (with the hysteresis variable added), never the dataset of
\* another file.
C17_Orig_OwnData ==
  \A a \in 1..Len(written) :
    /\ written[a].path + 1 <= Len(ncfiles)
    /\ ncfiles[written[a].path + 1].readable
    /\ written[a].data = ncfiles[written[a].path + 1].name

\* C18: no dataset is carried from one deployment into the next: every
\* dataset a pass pairs and persists was read from a file of the list of the
\* deployment the pass belongs to.
C18_Orig_NoCarryOver ==
  \A a \in 1..Len(written) :
    \E j \in 1..Len(ncfiles) :
      ncfiles[j].readable /\ ncfiles[j].name = written[a].data

\* sample j of f has a target value and is flagged SUSPECT or FAIL by QARTOD
QartodMasked(f, j) == ~IsNaN(f.cond[j]) /\ f.qartod[j] \in {SUSPECT, FAIL}

\* the samples of f that are not flagged and have both coordinates
Unflagged(f) ==
  {j \in 1..Len(f.cond) :
     /\ f.qartod[j] \notin {SUSPECT, FAIL}
     /\ ~IsNaN(f.cond[j])
     /\ ~IsNaN(f.pressure[j])}

\* dataset f with the raw target value of sample j replaced by v
WithRawValue(f, j, v) == [f EXCEPT !.cond[j] = v]

\* the raw values tried in place of a masked sample's value
RawValues == {0, 35, 1000}

\* the rows f contributes to the merged frame are its unflagged samples, in
\* order, and stay the same whatever the raw value of a flagged sample is
MaskedSamplesAbsent(f) ==
  /\ Len(Rows(f)) = Cardinality(Unflagged(f))
  /\ \A r \in 1..Len(Rows(f)) :
       \E j \in Unflagged(f) :
         Rows(f)[r] = [pressure |-> f.pressure[j], cond |-> f.cond[j]]
  /\ \A j \in 1..Len(f.cond) :
       QartodMasked(f, j) =>
         \A v \in RawValues :
           /\ Rows(WithRawValue(f, j, v)) = Rows(f)
           /\ initialize_flags(WithRawValue(f, j, v)).flags
                = initialize_flags(f).flags

\* C20: for every evaluated pair, a sample flagged SUSPECT or FAIL by QARTOD
\* is not a row of the merged frame from which the pressure range, the data
\* range and the polygon are taken, and the frame and the flag arrays are the
\* same whatever numeric raw value that sample has; the datasets handed to
\* save_ds are the datasets as read, not the masked copies.
C20_MaskedAbsent ==
  (pc = "pass" /\ last.op = "PairEvaluated") =>
    LET first == ncfiles[last.i + 1]
        second == ds2
    IN /\ MaskedSamplesAbsent(first)
       /\ MaskedSamplesAbsent(second)
       /\ LastWrites[1].data = first.name
       /\ LastWrites[2].data = second.name

C20_Witness ==
  /\ pc = "pass"
  /\ last.op = "PairEvaluated"
  /\ \E j \in 1..Len(ds2.cond) :
       /\ QartodMasked(ds2, j)
       /\ ds2.qartod[j] = SUSPECT
       /\ \A r \in 1..Len(EvaluatedFrame) : EvaluatedFrame[r].cond # ds2.cond[j]
  /\ Len(LastWrites) = 2
  /\ CarriesFlag(LastWrites[2], GOOD)

\* sequence s starts with sequence t
StartsWith(s, t) == Len(t) <= Len(s) /\ SubSeq(s, 1, Len(t)) = t

\* C19: a second run of the pass over the queue the first run left, which
\* differs from the original queue by the hysteresis variable only, makes the
\* same save_ds calls in the same order: same path, same dataset, same flag
\* array, same variable name and attributes; it logs the same errors, never
\* ends in an exception, and ends with the same counters and status.  The
\* hysteresis variable of the first run is therefore no mask input and
\* changes no pairing decision.
C19_Rerun ==
  (run = 2) =>
    /\ pc # "crashed"
    /\ StartsWith(first_run.written, written)
    /\ StartsWith(first_run.errors, errors)
    /\ PassComplete =>
         /\ written = first_run.written
         /\ errors = first_run.errors
         /\ status = first_run.status
         /\ failed_files = first_run.failed_files
         /\ suspect_files = first_run.suspect_files

\* the second run has flagged again, with FAIL, a pair that the first run
\* had flagged FAIL, reading files that hold the first run's variable
C19_Witness ==
  /\ run = 2
  /\ PassComplete
  /\ Len(written) = 2
  /\ written = first_run.written
  /\ \A j \in 1..Len(ncfiles) :
       /\ "hysteresis" \in DOMAIN ncfiles[j]
       /\ \E k \in 1..Len(ncfiles[j].hysteresis) :
            ncfiles[j].hysteresis[k] = FAIL
  /\ CarriesFlag(written[1], FAIL)
  /\ CarriesFlag(written[2], FAIL)

\* the paths of the list for which the pass has written an annotation that
\* holds the flag
PathsFlagged(flag) ==
  {j \in 0..(Len(ncfiles) - 1) :
     \E a \in 1..Len(written) :
       /\ written[a].path = j
       /\ \E k \in 1..Len(written[a].flags) : written[a].flags[k] = flag}

\* C21: throughout a pass, and so when lines 315-316 report them, the
\* SUSPECT count is the number of files of the list written with an
\* annotation that holds SUSPECT, the FAIL count is the number written with
\* one that holds FAIL, and the two together are at most the total reported,
\* the length of the list.
C21_Counts ==
  (pc = "pass") =>
    /\ suspect_files = Cardinality(PathsFlagged(SUSPECT))
    /\ failed_files = Cardinality(PathsFlagged(FAIL))
    /\ suspect_files + failed_files <= Len(ncfiles)

C21_Witness ==
  /\ PassComplete
  /\ Len(ncfiles) = 2
  /\ suspect_files = 2
  /\ failed_files = 0
  /\ PathsFlagged(SUSPECT) = {0, 1}

\* C22: a deployment whose sorted list is empty: listing it (lines 160-171)
\* leaves status as it was, no iteration of the file loop runs, and the pass
\* ends (lines 315-316) with both counts 0, nothing written, no error logged
\* and status still as it was.
C22_EmptyList ==
  [][/\ (last'.op = "BeginPass" /\ ncfiles' = << >>)
        => /\ status' = status
           /\ PassComplete'
     /\ (pc = "pass" /\ ncfiles = << >>)
        => /\ last'.op = "EndPass"
           /\ suspect_files = 0
           /\ failed_files = 0
           /\ written = << >>
           /\ errors = << >>
           /\ status' = status
           /\ recorded' = recorded]_vars

\* the list of the deployment is empty and the file loop is over at once,
\* with status 0
C22_Witness ==
  /\ last.op = "BeginPass"
  /\ ncfiles = << >>
  /\ PassComplete
  /\ ENABLED EndPass
  /\ status = 0
  /\ written = << >>
  /\ suspect_files = 0
  /\ failed_files = 0

\* C23 as stated: in every annotation written, a sample is MISSING exactly
\* when its pressure or its target value is NaN, so a sample with NaN
\* pressure never carries UNKNOWN, GOOD, SUSPECT or FAIL.
C23_Orig_PressureMissing ==
  \A a \in 1..Len(written) :
    LET w == written[a]
        f == DatasetOf(w)
    IN /\ Len(w.flags) = Len(f.cond)
       /\ \A j \in 1..Len(w.flags) :
            (w.flags[j] = MISSING)
              <=> (IsNaN(f.pressure[j]) \/ IsNaN(f.cond[j]))

\* a readable file with target data whose first and last valid pressures are
\* equal
IsLevelFile(f) ==
  /\ f.readable
  /\ f.hasCv
  /\ HasRawData(f)
  /\ HasPressure(f)
  /\ FirstPressure(f) = LastPressure(f)

\* the steps in which the file after the cursor was taken as an up partner
\* (line 243) and the step in which it was taken as a down one (line 238)
PartnerUpSteps ==
  {"PairTooFar", "PairNoData", "PairEmptyFrame", "PairInconclusive",
   "PairEvaluated"}

\* C24: one rule for both roles, under which a file whose first and last
\* valid pressures are equal is up: met as the first file of an iteration it
\* is written alone with UNKNOWN/MISSING flags only and the cursor moves by
\* one, whatever follows it; met as the partner of a down file it is taken
\* as an up profile.
C24_Orig_OneRule ==
  (pc \in {"pass", "crashed"} /\ last.op \in FileSteps \cup PartnerUpSteps) =>
    /\ IsLevelFile(ncfiles[last.i + 1])
       => /\ pc = "pass"
          /\ Len(LastWrites) = 1
          /\ WroteUnknown(LastWrites[1], ncfiles[last.i + 1], last.i)
          /\ last.adv = 1
    /\ (/\ last.op \in PartnerUpSteps \cup {"SecondAlsoDown"}
        /\ last.i + 2 <= Len(ncfiles)
        /\ IsLevelFile(ncfiles[last.i + 2]))
       => last.op \in PartnerUpSteps

\* C25: every polygon handed to shapely has vertices whose pressure is not
\* negative: the point list of the polygon is the merged list with the
\* negative pressures set to zero, the list the pressure range is taken from.
C25_Orig_ClampedPolygon ==
  \A p \in polygon_areas :
    \A k \in 1..Len(p.points) :
      /\ p.points[k].pressure >= 0
      /\ p.points[k].pressure = ClampPressure(p.points[k].pressure)

\* the steps of the file loop, the ones that end in an exception included
IterationSteps ==
  FileSteps \cup {"FirstNoPressure", "SecondUnbound", "SecondNoPressure",
                  "PairEmptyFrame"}

\* the step just taken met a down file at the cursor and, after it, a
\* readable file that the code takes as an up profile
DownThenUp ==
  /\ pc \in {"pass", "crashed"}
  /\ last.op \in IterationSteps
  /\ IsDownFile(ncfiles[last.i + 1])
  /\ last.i + 2 <= Len(ncfiles)
  /\ TakenAsUp(ncfiles[last.i + 2])

\* the pair went past line 247 to the masking and evaluation of lines 249-307
HandedToEvaluator ==
  last.op \in {"PairNoData", "PairEmptyFrame", "PairInconclusive",
               "PairEvaluated"}

\* the start of the second file minus the end of the first, for the pair of
\* the step just taken
LastGap == TimeGap(ncfiles[last.i + 1], ncfiles[last.i + 2])

PartnerSteps ==
  PartnerUpSteps \cup {"SecondNoVariable", "SecondNoPressure", "SecondAlsoDown"}

\* C27: the partner dataset a step uses from line 225 on is the dataset read
\* in that iteration from the file after the cursor, and no save_ds call
\* writes to the path of a file that could not be opened.
C27_Orig_FreshPartner ==
  /\ (pc \in {"pass", "crashed"} /\ last.op \in PartnerSteps)
       => /\ ncfiles[last.i + 2].readable
          /\ ds2 = ncfiles[last.i + 2]
  /\ \A a \in 1..Len(written) : ncfiles[written[a].path + 1].readable

\* the files at indices j and j + 1 of the list are a pair the evaluator
\* flags: a down profile with data, an up profile, less than 5 minutes
\* apart, both with target samples left after masking, and a merged pressure
\* range above 5
EvaluablePair(j) ==
  /\ j >= 0
  /\ j + 2 <= Len(ncfiles)
  /\ TakenAsDown(ncfiles[j + 1])
  /\ TakenAsUp(ncfiles[j + 2])
  /\ TimeGap(ncfiles[j + 1], ncfiles[j + 2]) < FiveMinutes
  /\ ~NoneLeftAfterMasking(ncfiles[j + 1])
  /\ ~NoneLeftAfterMasking(ncfiles[j + 2])
  /\ MergedFrame(ncfiles[j + 1], ncfiles[j + 2]) # << >>
  /\ pressure_range(MergedFrame(ncfiles[j + 1], ncfiles[j + 2]))
       > MinPressureRange

\* C28: in every state of a pass, an annotation that holds GOOD, SUSPECT or
\* FAIL was written, with the file's own data, for a member of a pair of
\* adjacent files of the list that the evaluator flags; every other
\* annotation holds UNKNOWN and MISSING only.
C28_Orig_FlagsOnlyFromPairs ==
  \A a \in 1..Len(written) :
    LET w == written[a]
    IN ~OnlyUnknownMissing(w.flags) =>
         /\ w.data = ncfiles[w.path + 1].name
         /\ EvaluablePair(w.path) \/ EvaluablePair(w.path - 1)

\* every file of the queue could be read when the queue was listed
QueueReadable == \A j \in 1..Len(ncfiles) : ncfiles[j].readable

\* the timestamps of the file at path a are all in the file at path b
ContainedIn(a, b) == ncfiles[a + 1].time \subseteq ncfiles[b + 1].time

\* the file of two consecutive files that the checker is to rename: the
\* second when the first holds all its timestamps, else the first
TheDuplicate(j) == IF ContainedIn(j + 1, j) THEN j + 1 ELSE j

\* the files at paths k < j are both still in the queue and every file
\* between them has been renamed
NearestPresent(k, j) ==
  /\ k < j
  /\ k \notin renamed
  /\ j \notin renamed
  /\ \A m \in (k + 1)..(j - 1) : m \in renamed

\* C29: in the duplicate-timestamp checker no read error is recorded for a
\* file the checker renamed; and when the loop over a queue of readable
\* files is over, the status is still the status before the queue, of every
\* two consecutive files with one's timestamps contained in the other's the
\* contained one is renamed, and no file left in the queue has all its
\* timestamps in the nearest preceding file left in the queue.
C29_Orig_DuplicateIsNoError ==
  /\ \A e \in 1..Len(errors) : errors[e].file \notin renamed
  /\ (PassComplete /\ QueueReadable) =>
       /\ errors = << >>
       /\ d = 0 => status = 0
       /\ \A j \in 0..(Len(ncfiles) - 2) :
            (ContainedIn(j, j + 1) \/ ContainedIn(j + 1, j))
              => TheDuplicate(j) \in renamed
       /\ \A k, j \in 0..(Len(ncfiles) - 1) :
            NearestPresent(k, j) => ~ContainedIn(j, k)

=============================================================================
